---- MODULE Spec2Model ----
(***************************************************************************)
(* A model of otdb-rs: the Client (token lifecycle), the Request builder   *)
(* (Options, token attachment), and dispatch (status classification and    *)
(* decoding) of src/src/{client,request,options,error,model}.rs.           *)
(*                                                                         *)
(* Rust's Option<T> is a sequence of length at most one: None == <<>>,     *)
(* Some(x) == <<x>>.  An HTTP call is a record [url, query] whose query    *)
(* is the ordered list of <<name, value>> pairs appended with              *)
(* RequestBuilder::query; values are rendered to text as on the wire.      *)
(***************************************************************************)
EXTENDS Integers, Sequences, FiniteSets, TLC

VARIABLES
    token,      \* Client.token : Option<String>
    req,        \* the Request / OwnedRequest the caller is building, or NoReq
    reqInfo,    \* history: which constructor made req, and the Client token then
    pc,         \* "idle", or the await the caller is suspended at, or "panicked"
    call,       \* the HTTP call issued by the current dispatch, or NoCall
    callInfo,   \* the declared response type of the call, and history: req's
                \* origin, its last question_number call, the HTTP calls issued
    resp,       \* history: the response the transport delivered, or NoResp
    outcome,    \* the Result returned by the last finished operation
    done,       \* history: the last finished operation
    before,     \* history: Client.token when the current operation started
    lastSet,    \* history: the last question_number call <<n, how it ended>>
    options,    \* a free-standing Options value (SpecOpt)
    builder,    \* the RequestBuilder the free-standing Options is applied to
    applied,    \* history: number of Options::prepare calls on `options`
    nsets,      \* history: number of setter calls on `options`
    run,        \* history: the Options::prepare calls since the last setter call:
                \* <<options before the first, builder before the first,
                \*   builder after the first, number of calls>>, or <<>>
    dec,        \* the last decoder call (SpecDecode): [op, arg, out]
    core,       \* blocking: the thread driving the shared Runtime, 0 if none
    tpc,        \* blocking: where each thread is in its send()
    tresp,      \* blocking: the response delivered to each thread's future
    tout,       \* blocking: the Result each thread's send() returned
    waited,     \* history: the thread found the Runtime driven by another
    ctoken,     \* clones: the token of the original Client (1) and its clone (2)
    cloned,     \* clones: the clone exists
    cpc,        \* clones: where each Client is in its reset_token
    actor,      \* history: the Client the last operation was called on
    atClone,    \* history: the original's token when it was cloned
    fut,        \* endpoints.rs: the future-based request, or NoFut
    fout,       \* endpoints.rs: what the last poll returned
    fhist       \* history: polls made, HTTP requests built and issued,
                \* prepare calls, and the token and options at the first poll

vars == <<token, req, reqInfo, pc, call, callInfo, resp, outcome, done, before,
          lastSet, options, builder, applied, nsets, run, dec,
          core, tpc, tresp, tout, waited,
          ctoken, cloned, cpc, actor, atClone, fut, fout, fhist>>

mainVars == <<token, req, reqInfo, pc, call, callInfo, resp, outcome, done,
              before, lastSet>>
optVars == <<options, builder, applied, nsets, run>>
decVars == <<dec>>
blkVars == <<core, tpc, tresp, tout, waited>>
cloneVars == <<ctoken, cloned, cpc, actor, atClone>>
futVars == <<fut, fout, fhist>>
auxVars == <<decVars, blkVars, cloneVars, futVars>>

----------------------------------------------------------------------------
(* Option<T> *)

None == <<>>
Some(x) == <<x>>
is_some(o) == o # <<>>
unwrap(o) == o[1]

----------------------------------------------------------------------------
(* Program constants *)

MaxQuestions == 50
DefaultQuestions == 10
OkStatus == 200
ServerErrorFloor == 500

TOKEN_REQUEST_URL == "https://opentdb.com/api_token.php?command=request"
TOKEN_RESET_URL == "https://opentdb.com/api_token.php?command=reset"
TRIVIA_URL == "https://opentdb.com/api.php?encode=base64"
CATEGORY_URL == "https://opentdb.com/api_count.php?category="
GLOBAL_URL == "https://opentdb.com/api_count_global.php"

CategoryIds == {0} \cup (9..32)
Difficulties == {"Any", "Easy", "Medium", "Hard"}
Kinds == {"Any", "TrueOrFalse", "MultipleChoice"}

----------------------------------------------------------------------------
(* Inputs *)

MaxSets == 4
MaxApplies == 2
Tokens == {"t1", "t2"}
QuestionNumbers == {0, 50, 51, 255}
CategoryInputs == {0, 9, 32}
DifficultyInputs == {"Any", "Hard"}
KindInputs == {"Any", "MultipleChoice"}
CustomEndpoints == {"https://example.org/custom"}
CustomMarkers == {"TokenRequest"}
Statuses == {100, 200, 204, 301, 404, 429, 499, 500, 503}

TokenBody(t) == "{\"token\":\"" \o t \o "\"}"
TRIVIA_BODY == "{\"response_code\":0,\"results\":[]}"
TriviaBody(code) == "{\"response_code\":" \o ToString(code) \o ",\"results\":[]}"
ResponseCodeInputs == {0, 3, 4, 5}
CATEGORY_BODY == "{\"category_id\":9,\"category_question_count\":{}}"
GLOBAL_BODY == "{\"overall\":{},\"categories\":{}}"
Bodies == {TokenBody(t) : t \in Tokens}
            \cup {TriviaBody(c) : c \in ResponseCodeInputs}
            \cup {TRIVIA_BODY, CATEGORY_BODY, GLOBAL_BODY, "maintenance", "slow down"}

----------------------------------------------------------------------------
(* RequestBuilder *)

get(endpoint) == [url |-> endpoint, query |-> <<>>]
query(b, name, value) == [b EXCEPT !.query = Append(@, <<name, value>>)]

----------------------------------------------------------------------------
(* options.rs *)

Options_default ==
    [question_number |-> None, category |-> None, difficulty |-> None, kind |-> None]


question_number_clamps(o, number) ==
    [panic |-> FALSE,
     options |-> [o EXCEPT !.question_number =
                     Some(IF number <= MaxQuestions THEN number ELSE MaxQuestions)]]

question_number_off_by_one(o, number) ==
    IF number < MaxQuestions
    THEN [panic |-> FALSE, options |-> [o EXCEPT !.question_number = Some(number)]]
    ELSE [panic |-> TRUE, options |-> o]

question_number(o, number) ==
    IF number <= MaxQuestions
    THEN [panic |-> FALSE, options |-> [o EXCEPT !.question_number = Some(number)]]
    ELSE [panic |-> TRUE, options |-> o]

category(o, c) == [o EXCEPT !.category = Some(c)]
difficulty(o, d) == [o EXCEPT !.difficulty = Some(d)]
kind(o, k) == [o EXCEPT !.kind = Some(k)]

Category_prepare(c, b) == IF c = 0 THEN b ELSE query(b, "category", ToString(c))

Difficulty_prepare(d, b) ==
    CASE d = "Easy" -> query(b, "difficulty", "easy")
      [] d = "Medium" -> query(b, "difficulty", "medium")
      [] d = "Hard" -> query(b, "difficulty", "hard")
      [] d = "Any" -> b

Kind_prepare_sends_any(k, b) ==
    CASE k = "TrueOrFalse" -> query(b, "type", "boolean")
      [] k = "MultipleChoice" -> query(b, "type", "multiple")
      [] k = "Any" -> query(b, "type", "any")

Kind_prepare(k, b) ==
    CASE k = "TrueOrFalse" -> query(b, "type", "boolean")
      [] k = "MultipleChoice" -> query(b, "type", "multiple")
      [] k = "Any" -> b


Options_prepare_keeps_amount(o, b) ==
    LET b1 == IF is_some(o.question_number)
              THEN query(b, "amount", ToString(unwrap(o.question_number))) ELSE b
        b2 == IF is_some(o.category) THEN Category_prepare(unwrap(o.category), b1) ELSE b1
        b3 == IF is_some(o.difficulty) THEN Difficulty_prepare(unwrap(o.difficulty), b2) ELSE b2
        b4 == IF is_some(o.kind) THEN Kind_prepare(unwrap(o.kind), b3) ELSE b3
    IN [options |-> [question_number |-> o.question_number, category |-> None,
                     difficulty |-> None, kind |-> None],
        builder |-> b4]

Options_prepare(o, b) ==
    LET b1 == IF is_some(o.question_number)
              THEN query(b, "amount", ToString(unwrap(o.question_number))) ELSE b
        b2 == IF is_some(o.category) THEN Category_prepare(unwrap(o.category), b1) ELSE b1
        b3 == IF is_some(o.difficulty) THEN Difficulty_prepare(unwrap(o.difficulty), b2) ELSE b2
        b4 == IF is_some(o.kind) THEN Kind_prepare(unwrap(o.kind), b3) ELSE b3
    IN [options |-> [question_number |-> None, category |-> None,
                     difficulty |-> None, kind |-> None],
        builder |-> b4]

----------------------------------------------------------------------------
(* request.rs *)

Request_new_without_default(tok, endpoint, marker) ==
    [token |-> tok, endpoint |-> endpoint, options |-> Options_default,
     marker |-> marker, owned |-> FALSE]

Request_new(tok, endpoint, marker) ==
    LET this == [token |-> tok, endpoint |-> endpoint, options |-> Options_default,
                 marker |-> marker, owned |-> FALSE]
    IN [this EXCEPT !.options = question_number(this.options, DefaultQuestions).options]

into_owned_default_options(r) ==
    [token |-> r.token, endpoint |-> r.endpoint,
     options |-> question_number(Options_default, DefaultQuestions).options,
     marker |-> r.marker, owned |-> TRUE]

into_owned(r) ==
    [token |-> r.token, endpoint |-> r.endpoint, options |-> r.options,
     marker |-> r.marker, owned |-> TRUE]


Request_prepare_token_last(r, b) ==
    LET p == Options_prepare(r.options, b)
        b1 == IF is_some(r.token) THEN query(p.builder, "token", unwrap(r.token))
              ELSE p.builder
    IN [req |-> [r EXCEPT !.options = p.options], builder |-> b1]

Request_prepare(r, b) ==
    LET b1 == IF is_some(r.token) THEN query(b, "token", unwrap(r.token)) ELSE b
        p == Options_prepare(r.options, b1)
    IN [req |-> [r EXCEPT !.options = p.options], builder |-> p.builder]

OwnedRequest_prepare(r, b) ==
    LET b1 == IF is_some(r.token) THEN query(b, "token", unwrap(r.token)) ELSE b
        p == Options_prepare(r.options, b1)
    IN [req |-> [r EXCEPT !.options = p.options], builder |-> p.builder]

----------------------------------------------------------------------------
(* Results: Ok(value) and the HttpError variants of error.rs; `cause` tells *)
(* which failure the wrapped reqwest::Error reports.                       *)

Ok(v) == [kind |-> "Ok", status |-> 0, text |-> "", cause |-> "", value |-> v]
Err_Request(cause) ==
    [kind |-> "Request", status |-> 0, text |-> "", cause |-> cause, value |-> ""]
Err_UnsuccessfulRequest(status, text) ==
    [kind |-> "UnsuccessfulRequest", status |-> status, text |-> text,
     cause |-> "", value |-> ""]
Err_InternalServerError(text) ==
    [kind |-> "InternalServerError", status |-> 0, text |-> text,
     cause |-> "", value |-> ""]

----------------------------------------------------------------------------
(* Text on the wire is a sequence of one-character strings, so that the    *)
(* decoders below work on it character by character as the code does.     *)
(* A decoder returns [ok, aborts, value, reported, expected]: on failure   *)
(* `reported` holds the offending value the error names; `aborts` is set   *)
(* when the decoder does not return at all (a panic or a crash).           *)

Decoded(v) ==
    [ok |-> TRUE, aborts |-> FALSE, value |-> v, reported |-> <<>>,
     expected |-> ""]
DecodeError(reported, expected) ==
    [ok |-> FALSE, aborts |-> FALSE, value |-> "", reported |-> reported,
     expected |-> expected]
Aborted(why) ==
    [ok |-> FALSE, aborts |-> TRUE, value |-> "", reported |-> <<>>,
     expected |-> why]

(* model.rs: decoders. *)
U8 == 0..255

deserialize_response_code_swapped(n) ==
    IF n \notin U8 THEN DecodeError(<<n>>, "u8")
    ELSE CASE n = 0 -> Decoded("Success")
           [] n = 1 -> Decoded("NoResults")
           [] n = 2 -> Decoded("InvalidParameter")
           [] n = 3 -> Decoded("TokenEmpty")
           [] n = 4 -> Decoded("TokenNotFound")
           [] OTHER -> DecodeError(<<n>>, "A number contained between 0 and 4")

deserialize_response_code_success_only(n) ==
    IF n \notin U8 THEN DecodeError(<<n>>, "u8")
    ELSE CASE n = 0 -> Decoded("Success")
           [] OTHER -> DecodeError(<<n>>, "A number contained between 0 and 4")

deserialize_response_code(n) ==
    IF n \notin U8 THEN DecodeError(<<n>>, "u8")
    ELSE CASE n = 0 -> Decoded("Success")
           [] n = 1 -> Decoded("NoResults")
           [] n = 2 -> Decoded("InvalidParameter")
           [] n = 3 -> Decoded("TokenNotFound")
           [] n = 4 -> Decoded("TokenEmpty")
           [] OTHER -> DecodeError(<<n>>, "A number contained between 0 and 4")

BaseResponse(code) == "BaseResponse{response_code:" \o code \o ",results:[]}"

(* base64::engine::general_purpose::STANDARD.decode: the standard        *)
(* alphabet, canonical padding required, no stray trailing bits.           *)
B64Alphabet ==
    <<"A", "B", "C", "D", "E", "F", "G", "H", "I", "J", "K", "L", "M", "N", "O", "P", "Q", "R", "S", "T", "U", "V", "W", "X", "Y", "Z",
      "a", "b", "c", "d", "e", "f", "g", "h", "i", "j", "k", "l", "m", "n", "o", "p", "q", "r", "s", "t", "u", "v", "w", "x", "y", "z",
      "0", "1", "2", "3", "4", "5", "6", "7", "8", "9", "+", "/">>

B64Chars == {B64Alphabet[i] : i \in DOMAIN B64Alphabet}

B64Value(ch) ==
    IF ch \in B64Chars
    THEN (CHOOSE i \in DOMAIN B64Alphabet : B64Alphabet[i] = ch) - 1
    ELSE 0

base64_decode(w) ==
    LET n == Len(w)
        pad == IF n >= 1 /\ w[n] = "="
               THEN (IF n >= 2 /\ w[n - 1] = "=" THEN 2 ELSE 1)
               ELSE 0
        wellFormed ==
            /\ n % 4 = 0
            /\ \A i \in 1..(n - pad) : w[i] \in B64Chars
            /\ pad = 1 => B64Value(w[n - 1]) % 4 = 0
            /\ pad = 2 => B64Value(w[n - 2]) % 16 = 0
        word(g) == B64Value(w[4 * g + 1]) * 262144 + B64Value(w[4 * g + 2]) * 4096
                   + B64Value(w[4 * g + 3]) * 64 + B64Value(w[4 * g + 4])
        shift(j) == IF j = 0 THEN 65536 ELSE IF j = 1 THEN 256 ELSE 1
    IN IF wellFormed
       THEN Decoded([k \in 1..(3 * (n \div 4) - pad) |->
                        (word((k - 1) \div 3) \div shift((k - 1) % 3)) % 256])
       ELSE DecodeError(<<>>, "base64")

(* String::from_utf8 on the decoded bytes.  Bytes below 128 are one        *)
(* character each; the inputs of this model hold no multi-byte sequence,   *)
(* so a byte of 128 or more is an invalid sequence.                        *)
Printable ==
    <<" ", "!", "\"", "#", "$", "%", "&", "'", "(", ")", "*", "+", ",", "-", ".", "/",
      "0", "1", "2", "3", "4", "5", "6", "7", "8", "9", ":", ";", "<", "=", ">", "?",
      "@", "A", "B", "C", "D", "E", "F", "G", "H", "I", "J", "K", "L", "M", "N", "O",
      "P", "Q", "R", "S", "T", "U", "V", "W", "X", "Y", "Z", "[", "\\", "]", "^", "_",
      "<grave>", "a", "b", "c", "d", "e", "f", "g", "h", "i", "j", "k", "l", "m", "n", "o",
      "p", "q", "r", "s", "t", "u", "v", "w", "x", "y", "z", "{", "|", "}", "~">>

\* "<grave>" stands for the grave accent, "<control>" for a control character
Chr(b) == IF b \in 32..126 THEN Printable[b - 31] ELSE "<control>"

from_utf8(bytes) ==
    IF \A i \in DOMAIN bytes : bytes[i] < 128
    THEN Decoded([i \in DOMAIN bytes |-> Chr(bytes[i])])
    ELSE DecodeError(<<>>, "utf8")

base64_string(w) ==
    LET bytes == base64_decode(w)
    IN IF bytes.ok THEN from_utf8(bytes.value) ELSE bytes

RECURSIVE replace(_, _, _)
replace(s, from, to) ==
    IF s = <<>> THEN <<>>
    ELSE (IF Head(s) = from THEN to ELSE <<Head(s)>>) \o replace(Tail(s), from, to)

contains(s, ch) == \E i \in DOMAIN s : s[i] = ch

rsplit_once(s, ch) ==
    LET at == CHOOSE i \in DOMAIN s :
                  s[i] = ch /\ \A j \in DOMAIN s : s[j] = ch => j <= i
    IN <<SubSeq(s, 1, at - 1), SubSeq(s, at + 1, Len(s))>>

split_once(s, ch) ==
    LET at == CHOOSE i \in DOMAIN s :
                  s[i] = ch /\ \A j \in DOMAIN s : s[j] = ch => j >= i
    IN <<SubSeq(s, 1, at - 1), SubSeq(s, at + 1, Len(s))>>

(* options.rs: the Category enum, its discriminants and its Debug names. *)
CategoryVariants ==
    <<[id |-> 0, name |-> "Any",
       debug |-> <<"A", "n", "y">>],
      [id |-> 9, name |-> "GeneralKnowledge",
       debug |-> <<"G", "e", "n", "e", "r", "a", "l", "K", "n", "o", "w", "l", "e", "d", "g", "e">>],
      [id |-> 10, name |-> "Books",
       debug |-> <<"B", "o", "o", "k", "s">>],
      [id |-> 11, name |-> "Film",
       debug |-> <<"F", "i", "l", "m">>],
      [id |-> 12, name |-> "Music",
       debug |-> <<"M", "u", "s", "i", "c">>],
      [id |-> 13, name |-> "MusicalAndTheatres",
       debug |-> <<"M", "u", "s", "i", "c", "a", "l", "A", "n", "d", "T", "h", "e", "a", "t", "r", "e", "s">>],
      [id |-> 14, name |-> "Television",
       debug |-> <<"T", "e", "l", "e", "v", "i", "s", "i", "o", "n">>],
      [id |-> 15, name |-> "VideoGames",
       debug |-> <<"V", "i", "d", "e", "o", "G", "a", "m", "e", "s">>],
      [id |-> 16, name |-> "BoardGames",
       debug |-> <<"B", "o", "a", "r", "d", "G", "a", "m", "e", "s">>],
      [id |-> 17, name |-> "ScienceAndNature",
       debug |-> <<"S", "c", "i", "e", "n", "c", "e", "A", "n", "d", "N", "a", "t", "u", "r", "e">>],
      [id |-> 18, name |-> "Computers",
       debug |-> <<"C", "o", "m", "p", "u", "t", "e", "r", "s">>],
      [id |-> 19, name |-> "Mathematics",
       debug |-> <<"M", "a", "t", "h", "e", "m", "a", "t", "i", "c", "s">>],
      [id |-> 20, name |-> "Mythology",
       debug |-> <<"M", "y", "t", "h", "o", "l", "o", "g", "y">>],
      [id |-> 21, name |-> "Sports",
       debug |-> <<"S", "p", "o", "r", "t", "s">>],
      [id |-> 22, name |-> "Geography",
       debug |-> <<"G", "e", "o", "g", "r", "a", "p", "h", "y">>],
      [id |-> 23, name |-> "History",
       debug |-> <<"H", "i", "s", "t", "o", "r", "y">>],
      [id |-> 24, name |-> "Politics",
       debug |-> <<"P", "o", "l", "i", "t", "i", "c", "s">>],
      [id |-> 25, name |-> "Art",
       debug |-> <<"A", "r", "t">>],
      [id |-> 26, name |-> "Celebrities",
       debug |-> <<"C", "e", "l", "e", "b", "r", "i", "t", "i", "e", "s">>],
      [id |-> 27, name |-> "Animals",
       debug |-> <<"A", "n", "i", "m", "a", "l", "s">>],
      [id |-> 28, name |-> "Vehicles",
       debug |-> <<"V", "e", "h", "i", "c", "l", "e", "s">>],
      [id |-> 29, name |-> "Comics",
       debug |-> <<"C", "o", "m", "i", "c", "s">>],
      [id |-> 30, name |-> "Gadgets",
       debug |-> <<"G", "a", "d", "g", "e", "t", "s">>],
      [id |-> 31, name |-> "JapaneseAnimeAndManga",
       debug |-> <<"J", "a", "p", "a", "n", "e", "s", "e", "A", "n", "i", "m", "e", "A", "n", "d", "M", "a", "n", "g", "a">>],
      [id |-> 32, name |-> "CartoonAndAnimations",
       debug |-> <<"C", "a", "r", "t", "o", "o", "n", "A", "n", "d", "A", "n", "i", "m", "a", "t", "i", "o", "n", "s">>]>>

Category_as_u8_shifted(c) ==
    LET v == CHOOSE v \in {CategoryVariants[i] : i \in DOMAIN CategoryVariants} :
                 v.name = c
    IN IF v.id = 0 THEN 0 ELSE v.id + 1

Category_as_u8(c) ==
    (CHOOSE v \in {CategoryVariants[i] : i \in DOMAIN CategoryVariants} :
         v.name = c).id

Category_fmt(c) ==
    (CHOOSE v \in {CategoryVariants[i] : i \in DOMAIN CategoryVariants} :
         v.name = c).debug

Discriminants == {CategoryVariants[i].id : i \in DOMAIN CategoryVariants}

(* std::mem::transmute::<u8, Category>(k).  For a discriminant of the enum *)
(* it is the variant; for any other byte the behaviour is undefined, and   *)
(* `build` selects what the compiled program does with it.                 *)
UBOutcomes == {"reinterpret", "abort"}

NonVariant(k) == "Category#" \o ToString(k)

transmute(k, build) ==
    IF k \in Discriminants
    THEN Decoded((CHOOSE v \in {CategoryVariants[i] : i \in DOMAIN CategoryVariants} :
                      v.id = k).name)
    ELSE IF build = "abort" THEN Aborted("undefined behaviour")
         ELSE Decoded(NonVariant(k))

Category_deserialize_first_colon(w) ==
    LET s == base64_string(w)
    IN IF ~s.ok THEN s
       ELSE LET spaced == replace(s.value, " ", <<>>)
                rest == IF contains(spaced, ":") THEN split_once(spaced, ":")[2]
                        ELSE spaced
                cat == IF contains(rest, "&") THEN replace(rest, "&", <<"A", "n", "d">>)
                       ELSE rest
                hits == {i \in 9..32 :
                            Category_fmt(transmute(i, "reinterpret").value) = cat}
            IN IF hits # {}
               THEN transmute(CHOOSE i \in hits : \A j \in hits : i <= j, "reinterpret")
               ELSE Decoded("Any")

Category_deserialize(w) ==
    LET s == base64_string(w)
    IN IF ~s.ok THEN s
       ELSE LET spaced == replace(s.value, " ", <<>>)
                rest == IF contains(spaced, ":") THEN rsplit_once(spaced, ":")[2]
                        ELSE spaced
                cat == IF contains(rest, "&") THEN replace(rest, "&", <<"A", "n", "d">>)
                       ELSE rest
                hits == {i \in 9..32 :
                            Category_fmt(transmute(i, "reinterpret").value) = cat}
            IN IF hits # {}
               THEN transmute(CHOOSE i \in hits : \A j \in hits : i <= j, "reinterpret")
               ELSE Decoded("Any")

Text_easy == <<"e", "a", "s", "y">>
Text_medium == <<"m", "e", "d", "i", "u", "m">>
Text_hard == <<"h", "a", "r", "d">>
Text_boolean == <<"b", "o", "o", "l", "e", "a", "n">>
Text_multiple == <<"m", "u", "l", "t", "i", "p", "l", "e">>

Kind_deserialize(w) ==
    LET s == base64_string(w)
    IN IF ~s.ok THEN s
       ELSE CASE s.value = Text_boolean -> Decoded("TrueOrFalse")
              [] s.value = Text_multiple -> Decoded("MultipleChoice")
              [] OTHER -> Aborted("unreachable")

Difficulty_deserialize(w) ==
    LET s == base64_string(w)
    IN IF ~s.ok THEN s
       ELSE CASE s.value = Text_easy -> Decoded("Easy")
              [] s.value = Text_medium -> Decoded("Medium")
              [] s.value = Text_hard -> Decoded("Hard")
              [] OTHER -> Aborted("unreachable")

(* model.rs: MapVisitor::visit_map over the keys of the statistics map, in *)
(* the order they arrive; the map is the set of its keys.                  *)
RECURSIVE visit_map(_, _, _)
visit_map(keys, map, build) ==
    IF keys = <<>> THEN Decoded(map)
    ELSE IF Head(keys) \notin U8 THEN DecodeError(<<Head(keys)>>, "u8")
    ELSE LET c == transmute(Head(keys), build)
         IN IF c.aborts THEN c
            ELSE visit_map(Tail(keys), map \cup {c.value}, build)

(* Response::json for the declared type: the derived decoders accept an    *)
(* object carrying the type's fields.                                      *)
json(marker, body) ==
    CASE marker \in {"TokenRequest", "ResetToken"}
            /\ \E t \in Tokens : body = TokenBody(t)
            -> [ok |-> TRUE, value |-> CHOOSE t \in Tokens : body = TokenBody(t)]
      [] marker = "BaseResponse" /\ \E c \in ResponseCodeInputs : body = TriviaBody(c)
            -> LET c == CHOOSE c \in ResponseCodeInputs : body = TriviaBody(c)
                   d == deserialize_response_code(c)
               IN [ok |-> d.ok, value |-> IF d.ok THEN BaseResponse(d.value) ELSE ""]
      [] marker = "CategoryDetails" /\ body = CATEGORY_BODY
            -> [ok |-> TRUE, value |-> "CategoryDetails"]
      [] marker = "GlobalDetails" /\ body = GLOBAL_BODY
            -> [ok |-> TRUE, value |-> "GlobalDetails"]
      [] OTHER -> [ok |-> FALSE, value |-> ""]

TransportFailure == [sent |-> FALSE, status |-> 0, body |-> "", readable |-> FALSE]
Responses ==
    {TransportFailure}
      \cup [sent : {TRUE}, status : Statuses, body : Bodies, readable : BOOLEAN]


make_request_above_500(marker, r) ==
    IF ~r.sent THEN Err_Request("transport")
    ELSE CASE r.status = OkStatus ->
                IF ~r.readable THEN Err_Request("body")
                ELSE IF json(marker, r.body).ok THEN Ok(json(marker, r.body).value)
                ELSE Err_Request("decode")
           [] r.status # OkStatus /\ r.status > ServerErrorFloor ->
                IF ~r.readable THEN Err_Request("body")
                ELSE Err_InternalServerError(r.body)
           [] OTHER ->
                IF ~r.readable THEN Err_Request("body")
                ELSE Err_UnsuccessfulRequest(r.status, r.body)

make_request_decode_as_status(marker, r) ==
    IF ~r.sent THEN Err_Request("transport")
    ELSE CASE r.status = OkStatus ->
                IF ~r.readable THEN Err_Request("body")
                ELSE IF json(marker, r.body).ok THEN Ok(json(marker, r.body).value)
                ELSE Err_UnsuccessfulRequest(r.status, r.body)
           [] r.status # OkStatus /\ r.status >= ServerErrorFloor ->
                IF ~r.readable THEN Err_Request("body")
                ELSE Err_InternalServerError(r.body)
           [] OTHER ->
                IF ~r.readable THEN Err_Request("body")
                ELSE Err_UnsuccessfulRequest(r.status, r.body)

make_request_status_first(marker, r) ==
    CASE r.sent /\ r.status = OkStatus ->
            IF ~r.readable THEN Err_Request("body")
            ELSE IF json(marker, r.body).ok THEN Ok(json(marker, r.body).value)
            ELSE Err_Request("decode")
      [] r.status # OkStatus /\ r.status >= ServerErrorFloor ->
            IF ~r.readable THEN Err_Request("body")
            ELSE Err_InternalServerError(r.body)
      [] OTHER ->
            IF ~r.readable THEN Err_Request("body")
            ELSE Err_UnsuccessfulRequest(r.status, r.body)

make_request(marker, r) ==
    IF ~r.sent THEN Err_Request("transport")
    ELSE CASE r.status = OkStatus ->
                IF ~r.readable THEN Err_Request("body")
                ELSE IF json(marker, r.body).ok THEN Ok(json(marker, r.body).value)
                ELSE Err_Request("decode")
           [] r.status # OkStatus /\ r.status >= ServerErrorFloor ->
                IF ~r.readable THEN Err_Request("body")
                ELSE Err_InternalServerError(r.body)
           [] OTHER ->
                IF ~r.readable THEN Err_Request("body")
                ELSE Err_UnsuccessfulRequest(r.status, r.body)

----------------------------------------------------------------------------
(* client.rs *)

Client_new == None
set_token(t) == Some(t)
get_token(tok) == tok


(* Request::send and OwnedRequest::send call make_request once and return  *)
(* what it returns: no result makes them issue the call again.             *)

send_again_on_server_error(result) == result.kind = "InternalServerError"

send_again(result) == FALSE

generate_token_request(tok) == Request_new(tok, TOKEN_REQUEST_URL, "TokenRequest")

generate_token_resume_stores(tok, result) ==
    IF result.kind = "Ok" THEN [token |-> set_token(result.value), ret |-> result]
    ELSE [token |-> tok, ret |-> result]

generate_token_resume(tok, result) == [token |-> tok, ret |-> result]

trivia(tok) == Request_new(tok, TRIVIA_URL, "BaseResponse")

category_details_with_token(tok, c) ==
    Request_new(tok, CATEGORY_URL \o ToString(c), "CategoryDetails")

category_details(tok, c) == Request_new(None, CATEGORY_URL \o ToString(c), "CategoryDetails")

global_details_without_default(tok) ==
    Request_new_without_default(None, GLOBAL_URL, "GlobalDetails")

global_details(tok) == Request_new(None, GLOBAL_URL, "GlobalDetails")
new_request(tok, endpoint, marker) == Request_new(tok, endpoint, marker)


reset_token_request_always_reset(tok) ==
    Request_new(tok, TOKEN_RESET_URL, "ResetToken")

reset_token_request(tok) ==
    IF is_some(tok) THEN Request_new(tok, TOKEN_RESET_URL, "ResetToken")
    ELSE generate_token_request(tok)

reset_token_resume_stores(tok, result) ==
    IF result.kind = "Ok" THEN [token |-> set_token(result.value), ret |-> result]
    ELSE [token |-> tok, ret |-> result]

reset_token_resume_forgets(tok, result) ==
    IF result.kind # "Ok" THEN [token |-> None, ret |-> result]
    ELSE IF is_some(tok) THEN [token |-> tok, ret |-> result]
    ELSE [token |-> set_token(result.value), ret |-> result]

reset_token_resume(tok, result) ==
    IF is_some(tok) THEN [token |-> tok, ret |-> result]
    ELSE LET g == generate_token_resume(tok, result)
         IN IF g.ret.kind = "Ok"
            THEN [token |-> set_token(g.ret.value), ret |-> g.ret]
            ELSE [token |-> g.token, ret |-> g.ret]

----------------------------------------------------------------------------
(* State *)

NoReq == <<>>
NoCall == <<>>
NoResp == <<>>
NoOutcome == <<>>
NoInfo == <<>>
NoDecode == [op |-> "none", arg |-> <<>>, out |-> <<>>]

NThreads == 3
Threads == 1..NThreads

Handles == 1..2
NoActor == [on |-> 0, op |-> "none"]

NoFut == <<>>
Pending == <<>>
Ready(result) == <<result>>
NoHistory == [polls |-> 0, built |-> 0, issued |-> 0, prepared |-> 0, first |-> <<>>]

Init ==
    /\ token = Client_new
    /\ req = NoReq
    /\ reqInfo = NoInfo
    /\ pc = "idle"
    /\ call = NoCall
    /\ callInfo = NoInfo
    /\ resp = NoResp
    /\ outcome = NoOutcome
    /\ done = "none"
    /\ before = None
    /\ lastSet = <<>>
    /\ options = Options_default
    /\ builder = get(TRIVIA_URL)
    /\ applied = 0
    /\ nsets = 0
    /\ run = <<>>
    /\ dec = NoDecode
    /\ core = 0
    /\ tpc = [i \in Threads |-> "start"]
    /\ tresp = [i \in Threads |-> NoResp]
    /\ tout = [i \in Threads |-> NoOutcome]
    /\ waited = [i \in Threads |-> FALSE]
    /\ ctoken = [i \in Handles |-> Client_new]
    /\ cloned = FALSE
    /\ cpc = [i \in Handles |-> "idle"]
    /\ actor = NoActor
    /\ atClone = None
    /\ fut = NoFut
    /\ fout = Pending
    /\ fhist = NoHistory

----------------------------------------------------------------------------
(* Actions of the caller of one Client.  A Request borrows the Client      *)
(* (&self.token), so while a borrowed Request is alive no &mut self method *)
(* of the Client can be called; an OwnedRequest holds no borrow.           *)

NoBorrow == IF req = NoReq THEN TRUE ELSE req.owned

ClearDispatch ==
    /\ call' = NoCall
    /\ callInfo' = NoInfo
    /\ resp' = NoResp
    /\ outcome' = NoOutcome
    /\ done' = "none"
    /\ before' = None

Create(r, origin) ==
    /\ pc = "idle"
    /\ req = NoReq
    /\ req' = r
    /\ reqInfo' = [origin |-> origin, held |-> token]
    /\ lastSet' = <<>>
    /\ ClearDispatch
    /\ UNCHANGED <<token, pc>>

Trivia == Create(trivia(token), "trivia") /\ UNCHANGED <<optVars, auxVars>>

CategoryDetails ==
    /\ \E c \in CategoryInputs : Create(category_details(token, c), "category_details")
    /\ UNCHANGED <<optVars, auxVars>>

GlobalDetails == Create(global_details(token), "global_details") /\ UNCHANGED <<optVars, auxVars>>

NewRequest ==
    /\ \E e \in CustomEndpoints, m \in CustomMarkers :
          Create(new_request(token, e, m), "new_request")
    /\ UNCHANGED <<optVars, auxVars>>

SetQuestionNumber ==
    /\ pc = "idle"
    /\ req # NoReq
    /\ \E n \in QuestionNumbers :
          LET s == question_number(req.options, n)
          IN IF s.panic
             THEN \* the assertion fails: the caller unwinds and drops the request
                  /\ req' = NoReq
                  /\ reqInfo' = NoInfo
                  /\ pc' = "panicked"
                  /\ lastSet' = <<n, "panic">>
             ELSE /\ req' = [req EXCEPT !.options = s.options]
                  /\ reqInfo' = reqInfo
                  /\ pc' = pc
                  /\ lastSet' = <<n, "ok">>
    /\ UNCHANGED <<token, call, callInfo, resp, outcome, done, before>>
    /\ UNCHANGED <<optVars, auxVars>>

SetCategory ==
    /\ pc = "idle"
    /\ req # NoReq
    /\ \E c \in CategoryInputs : req' = [req EXCEPT !.options = category(@, c)]
    /\ UNCHANGED <<token, reqInfo, pc, call, callInfo, resp, outcome, done, before, lastSet>>
    /\ UNCHANGED <<optVars, auxVars>>

SetDifficulty ==
    /\ pc = "idle"
    /\ req # NoReq
    /\ \E d \in DifficultyInputs : req' = [req EXCEPT !.options = difficulty(@, d)]
    /\ UNCHANGED <<token, reqInfo, pc, call, callInfo, resp, outcome, done, before, lastSet>>
    /\ UNCHANGED <<optVars, auxVars>>

SetKind ==
    /\ pc = "idle"
    /\ req # NoReq
    /\ \E k \in KindInputs : req' = [req EXCEPT !.options = kind(@, k)]
    /\ UNCHANGED <<token, reqInfo, pc, call, callInfo, resp, outcome, done, before, lastSet>>
    /\ UNCHANGED <<optVars, auxVars>>

IntoOwned ==
    /\ pc = "idle"
    /\ req # NoReq
    /\ ~req.owned
    /\ req' = into_owned(req)
    /\ UNCHANGED <<token, reqInfo, pc, call, callInfo, resp, outcome, done, before, lastSet>>
    /\ UNCHANGED <<optVars, auxVars>>

SetToken ==
    /\ pc = "idle"
    /\ NoBorrow
    /\ \E t \in Tokens : token' = set_token(t)
    /\ ClearDispatch
    /\ UNCHANGED <<req, reqInfo, pc, lastSet>>
    /\ UNCHANGED <<optVars, auxVars>>

(* Request::send / OwnedRequest::send up to the await of the HTTP call *)
Send ==
    /\ pc = "idle"
    /\ req # NoReq
    /\ LET p == IF req.owned THEN OwnedRequest_prepare(req, get(req.endpoint))
                ELSE Request_prepare(req, get(req.endpoint))
       IN /\ call' = p.builder
          /\ callInfo' = [marker |-> req.marker, origin |-> reqInfo.origin,
                          held |-> reqInfo.held, set |-> lastSet, trips |-> 1]
    /\ req' = NoReq
    /\ reqInfo' = NoInfo
    /\ pc' = "send"
    /\ resp' = NoResp
    /\ outcome' = NoOutcome
    /\ done' = "none"
    /\ before' = token
    /\ lastSet' = <<>>
    /\ UNCHANGED token
    /\ UNCHANGED <<optVars, auxVars>>

(* An internal Request made and sent by a Client method, up to the await.  *)
(* The caller calls the token methods between requests, not while it is    *)
(* building one.                                                           *)
Dispatch(r, origin, at) ==
    /\ call' = Request_prepare(r, get(r.endpoint)).builder
    /\ callInfo' = [marker |-> r.marker, origin |-> origin, held |-> token,
                    set |-> <<>>, trips |-> 1]
    /\ pc' = at
    /\ resp' = NoResp
    /\ outcome' = NoOutcome
    /\ done' = "none"
    /\ before' = token

GenerateToken ==
    /\ pc = "idle"
    /\ req = NoReq
    /\ Dispatch(generate_token_request(token), "generate_token", "generate_token")
    /\ UNCHANGED <<token, req, reqInfo, lastSet>>
    /\ UNCHANGED <<optVars, auxVars>>

ResetToken ==
    /\ pc = "idle"
    /\ req = NoReq
    /\ Dispatch(reset_token_request(token), "reset_token", "reset_token")
    /\ UNCHANGED <<token, req, reqInfo, lastSet>>
    /\ UNCHANGED <<optVars, auxVars>>

(* The HTTP call completes (or fails); the suspended operation resumes and *)
(* runs to its return.                                                     *)
Respond ==
    /\ pc \in {"send", "generate_token", "reset_token"}
    /\ \E r \in Responses :
          LET result == make_request(callInfo.marker, r)
              fin == CASE pc = "send" -> [token |-> token, ret |-> result]
                       [] pc = "generate_token" -> generate_token_resume(token, result)
                       [] pc = "reset_token" -> reset_token_resume(token, result)
          IN IF send_again(result)
             THEN /\ resp' = r
                  /\ callInfo' = [callInfo EXCEPT !.trips = @ + 1]
                  /\ UNCHANGED <<token, outcome, done, pc>>
             ELSE /\ resp' = r
                  /\ outcome' = fin.ret
                  /\ token' = fin.token
                  /\ done' = pc
                  /\ pc' = "idle"
                  /\ UNCHANGED callInfo
    /\ UNCHANGED <<req, reqInfo, call, before, lastSet>>
    /\ UNCHANGED <<optVars, auxVars>>

Next ==
    \/ Trivia
    \/ CategoryDetails
    \/ GlobalDetails
    \/ NewRequest
    \/ SetQuestionNumber
    \/ SetCategory
    \/ SetDifficulty
    \/ SetKind
    \/ IntoOwned
    \/ SetToken
    \/ Send
    \/ GenerateToken
    \/ ResetToken
    \/ Respond

Spec == Init /\ [][Next]_vars

----------------------------------------------------------------------------
(* Actions on a free-standing Options value: the setters and               *)
(* Options::prepare, which the crate may call any number of times on the   *)
(* same value.                                                             *)

OptQuestionNumber ==
    /\ pc = "idle"
    /\ nsets < MaxSets
    /\ \E n \in QuestionNumbers :
          LET s == question_number(options, n)
          IN /\ options' = s.options
             /\ pc' = IF s.panic THEN "panicked" ELSE pc
             /\ lastSet' = <<n, IF s.panic THEN "panic" ELSE "ok">>
    /\ nsets' = nsets + 1
    /\ run' = <<>>
    /\ UNCHANGED <<builder, applied>>
    /\ UNCHANGED <<token, req, reqInfo, call, callInfo, resp, outcome, done, before>>
    /\ UNCHANGED auxVars

OptSet(o) ==
    /\ pc = "idle"
    /\ nsets < MaxSets
    /\ options' = o
    /\ nsets' = nsets + 1
    /\ run' = <<>>
    /\ UNCHANGED <<builder, applied>>

OptCategory ==
    /\ \E c \in CategoryInputs : OptSet(category(options, c))
    /\ UNCHANGED <<mainVars, auxVars>>

OptDifficulty ==
    /\ \E d \in Difficulties : OptSet(difficulty(options, d))
    /\ UNCHANGED <<mainVars, auxVars>>

OptKind ==
    /\ \E k \in Kinds : OptSet(kind(options, k))
    /\ UNCHANGED <<mainVars, auxVars>>

OptPrepare ==
    /\ pc = "idle"
    /\ applied < MaxApplies
    /\ LET p == Options_prepare(options, builder)
       IN /\ options' = p.options
          /\ builder' = p.builder
          /\ run' = IF run = <<>> THEN <<options, builder, p.builder, 1>>
                    ELSE <<run[1], run[2], run[3], run[4] + 1>>
    /\ applied' = applied + 1
    /\ UNCHANGED nsets
    /\ UNCHANGED <<mainVars, auxVars>>

NextOpt ==
    \/ OptQuestionNumber
    \/ OptCategory
    \/ OptDifficulty
    \/ OptKind
    \/ OptPrepare

SpecOpt == Init /\ [][NextOpt]_vars

----------------------------------------------------------------------------
(* The decoders of model.rs and options.rs, and Category::prepare, applied *)
(* to wire values.  They are pure: each call only records what it was      *)
(* given and what it produced.                                             *)

MaxCode == 260
MaxKeys == 2
CodeInputs == (0 - 1)..MaxCode
KeyInputs == {0 - 1, 0, 8, 9, 32, 33, 255, 256}

RECURSIVE KeyLists(_)
KeyLists(n) ==
    IF n = 0 THEN {<<>>}
    ELSE KeyLists(n - 1)
         \cup {Append(l, k) : l \in {m \in KeyLists(n - 1) : Len(m) = n - 1},
                              k \in KeyInputs}

CategoryCases ==
    <<[wire |-> <<"R", "2", "V", "u", "Z", "X", "J", "h", "b", "C", "B", "L", "b", "m", "9", "3", "b", "G", "V", "k", "Z", "2", "U", "=">>,
       expect |-> "GeneralKnowledge"],
      [wire |-> <<"R", "W", "5", "0", "Z", "X", "J", "0", "Y", "W", "l", "u", "b", "W", "V", "u", "d", "D", "o", "g", "Q", "m", "9", "v", "a", "3", "M", "=">>,
       expect |-> "Books"],
      [wire |-> <<"R", "W", "5", "0", "Z", "X", "J", "0", "Y", "W", "l", "u", "b", "W", "V", "u", "d", "D", "o", "g", "R", "m", "l", "s", "b", "Q", "=", "=">>,
       expect |-> "Film"],
      [wire |-> <<"R", "W", "5", "0", "Z", "X", "J", "0", "Y", "W", "l", "u", "b", "W", "V", "u", "d", "D", "o", "g", "T", "X", "V", "z", "a", "W", "M", "=">>,
       expect |-> "Music"],
      [wire |-> <<"R", "W", "5", "0", "Z", "X", "J", "0", "Y", "W", "l", "u", "b", "W", "V", "u", "d", "D", "o", "g", "T", "X", "V", "z", "a", "W", "N", "h", "b", "H", "M", "g", "J", "i", "B", "U", "a", "G", "V", "h", "d", "H", "J", "l", "c", "w", "=", "=">>,
       expect |-> "Any"],
      [wire |-> <<"R", "W", "5", "0", "Z", "X", "J", "0", "Y", "W", "l", "u", "b", "W", "V", "u", "d", "D", "o", "g", "V", "G", "V", "s", "Z", "X", "Z", "p", "c", "2", "l", "v", "b", "g", "=", "=">>,
       expect |-> "Television"],
      [wire |-> <<"R", "W", "5", "0", "Z", "X", "J", "0", "Y", "W", "l", "u", "b", "W", "V", "u", "d", "D", "o", "g", "V", "m", "l", "k", "Z", "W", "8", "g", "R", "2", "F", "t", "Z", "X", "M", "=">>,
       expect |-> "VideoGames"],
      [wire |-> <<"R", "W", "5", "0", "Z", "X", "J", "0", "Y", "W", "l", "u", "b", "W", "V", "u", "d", "D", "o", "g", "Q", "m", "9", "h", "c", "m", "Q", "g", "R", "2", "F", "t", "Z", "X", "M", "=">>,
       expect |-> "BoardGames"],
      [wire |-> <<"U", "2", "N", "p", "Z", "W", "5", "j", "Z", "S", "A", "m", "I", "E", "5", "h", "d", "H", "V", "y", "Z", "Q", "=", "=">>,
       expect |-> "ScienceAndNature"],
      [wire |-> <<"U", "2", "N", "p", "Z", "W", "5", "j", "Z", "T", "o", "g", "Q", "2", "9", "t", "c", "H", "V", "0", "Z", "X", "J", "z">>,
       expect |-> "Computers"],
      [wire |-> <<"U", "2", "N", "p", "Z", "W", "5", "j", "Z", "T", "o", "g", "T", "W", "F", "0", "a", "G", "V", "t", "Y", "X", "R", "p", "Y", "3", "M", "=">>,
       expect |-> "Mathematics"],
      [wire |-> <<"T", "X", "l", "0", "a", "G", "9", "s", "b", "2", "d", "5">>,
       expect |-> "Mythology"],
      [wire |-> <<"U", "3", "B", "v", "c", "n", "R", "z">>,
       expect |-> "Sports"],
      [wire |-> <<"R", "2", "V", "v", "Z", "3", "J", "h", "c", "G", "h", "5">>,
       expect |-> "Geography"],
      [wire |-> <<"S", "G", "l", "z", "d", "G", "9", "y", "e", "Q", "=", "=">>,
       expect |-> "History"],
      [wire |-> <<"U", "G", "9", "s", "a", "X", "R", "p", "Y", "3", "M", "=">>,
       expect |-> "Politics"],
      [wire |-> <<"Q", "X", "J", "0">>,
       expect |-> "Art"],
      [wire |-> <<"Q", "2", "V", "s", "Z", "W", "J", "y", "a", "X", "R", "p", "Z", "X", "M", "=">>,
       expect |-> "Celebrities"],
      [wire |-> <<"Q", "W", "5", "p", "b", "W", "F", "s", "c", "w", "=", "=">>,
       expect |-> "Animals"],
      [wire |-> <<"V", "m", "V", "o", "a", "W", "N", "s", "Z", "X", "M", "=">>,
       expect |-> "Vehicles"],
      [wire |-> <<"R", "W", "5", "0", "Z", "X", "J", "0", "Y", "W", "l", "u", "b", "W", "V", "u", "d", "D", "o", "g", "Q", "2", "9", "t", "a", "W", "N", "z">>,
       expect |-> "Comics"],
      [wire |-> <<"U", "2", "N", "p", "Z", "W", "5", "j", "Z", "T", "o", "g", "R", "2", "F", "k", "Z", "2", "V", "0", "c", "w", "=", "=">>,
       expect |-> "Gadgets"],
      [wire |-> <<"R", "W", "5", "0", "Z", "X", "J", "0", "Y", "W", "l", "u", "b", "W", "V", "u", "d", "D", "o", "g", "S", "m", "F", "w", "Y", "W", "5", "l", "c", "2", "U", "g", "Q", "W", "5", "p", "b", "W", "U", "g", "J", "i", "B", "N", "Y", "W", "5", "n", "Y", "Q", "=", "=">>,
       expect |-> "JapaneseAnimeAndManga"],
      [wire |-> <<"R", "W", "5", "0", "Z", "X", "J", "0", "Y", "W", "l", "u", "b", "W", "V", "u", "d", "D", "o", "g", "Q", "2", "F", "y", "d", "G", "9", "v", "b", "i", "A", "m", "I", "E", "F", "u", "a", "W", "1", "h", "d", "G", "l", "v", "b", "n", "M", "=">>,
       expect |-> "CartoonAndAnimations"],
      [wire |-> <<"T", "X", "V", "z", "a", "W", "N", "h", "b", "C", "A", "m", "I", "F", "R", "o", "Z", "W", "F", "0", "c", "m", "V", "z">>,
       expect |-> "MusicalAndTheatres"],
      [wire |-> <<"V", "W", "5", "r", "b", "m", "9", "3", "b", "g", "=", "=">>,
       expect |-> "Any"],
      [wire |-> <<>>,
       expect |-> "Any"],
      [wire |-> <<"Y", "T", "p", "i", "O", "k", "F", "y", "d", "A", "=", "=">>,
       expect |-> "Art"],
      [wire |-> <<"Y", "X", "J", "0">>,
       expect |-> "Any"],
      [wire |-> <<"Q", "W", "5", "5">>,
       expect |-> "Any"],
      [wire |-> <<"Q", "X", "J", "0", "O", "g", "=", "=">>,
       expect |-> "Any"],
      [wire |-> <<"Q", "S", "B", "y", "I", "H", "Q", "=">>,
       expect |-> "Art"]>>

EnumWires ==
    {<<"Z", "W", "F", "z", "e", "Q", "=", "=">>,
     <<"b", "W", "V", "k", "a", "X", "V", "t">>,
     <<"a", "G", "F", "y", "Z", "A", "=", "=">>,
     <<"Y", "m", "9", "v", "b", "G", "V", "h", "b", "g", "=", "=">>,
     <<"b", "X", "V", "s", "d", "G", "l", "w", "b", "G", "U", "=">>,
     <<"Z", "X", "h", "0", "c", "m", "V", "t", "Z", "Q", "=", "=">>,
     <<"R", "W", "F", "z", "e", "Q", "=", "=">>,
     <<>>,
     <<"Y", "W", "5", "5">>,
     <<"Z", "W", "F", "z", "e", "Q">>,
     <<"!", "!", "!", "!">>,
     <<"/", "w", "=", "=">>,
     <<"Z", "W", "F", "z", "e", "R", "=", "=">>}

CategoryWires == {CategoryCases[i].wire : i \in DOMAIN CategoryCases}

Decode(op, arg, out) ==
    /\ dec' = [op |-> op, arg |-> arg, out |-> out]
    /\ UNCHANGED <<mainVars, optVars, blkVars, cloneVars, futVars>>

DecodeResponseCode ==
    /\ \E n \in CodeInputs :
          Decode("response_code", n, deserialize_response_code(n))

DecodeCategory ==
    /\ \E w \in CategoryWires \cup EnumWires :
          Decode("Category", w, Category_deserialize(w))

DecodeDifficulty ==
    /\ \E w \in EnumWires : Decode("Difficulty", w, Difficulty_deserialize(w))

DecodeKind ==
    /\ \E w \in EnumWires : Decode("Kind", w, Kind_deserialize(w))

DecodeCategoryMap ==
    /\ \E keys \in KeyLists(MaxKeys), build \in UBOutcomes :
          Decode("visit_map", keys, visit_map(keys, {}, build))

RenderCategory ==
    /\ \E id \in CategoryIds :
          LET c == transmute(id, "reinterpret").value
          IN Decode("render", id, Category_prepare(Category_as_u8(c), get(TRIVIA_URL)).query)

NextDecode ==
    \/ DecodeResponseCode
    \/ DecodeCategory
    \/ DecodeDifficulty
    \/ DecodeKind
    \/ DecodeCategoryMap
    \/ RenderCategory

SpecDecode == Init /\ [][NextDecode]_vars

----------------------------------------------------------------------------
(* blocking.rs: NThreads threads, each with its own clone of one blocking  *)
(* Client, each sending one trivia request.  The clones share one          *)
(* current-thread Runtime (Arc<Runtime>), and send() is rt.block_on(fut)   *)
(* on the caller's own future.  Runtime::block_on is tokio's: with the     *)
(* current-thread scheduler the first caller takes the I/O driver, the     *)
(* other callers hook into it and keep polling their own future, and when  *)
(* the driving call returns a waiting caller takes the driver over.        *)

BlockingResponses ==
    {TransportFailure,
     [sent |-> TRUE, status |-> 200, body |-> TRIVIA_BODY, readable |-> TRUE],
     [sent |-> TRUE, status |-> 503, body |-> "maintenance", readable |-> TRUE]}

blocking_send_first_ready(resps, i) ==
    make_request("BaseResponse",
                 resps[CHOOSE j \in DOMAIN resps :
                          resps[j] # NoResp
                          /\ \A k \in DOMAIN resps : resps[k] # NoResp => j <= k])

blocking_send(resps, i) == make_request("BaseResponse", resps[i])

BlockOn(i) ==
    /\ tpc[i] = "start"
    /\ IF core = 0
       THEN /\ core' = i
            /\ tpc' = [tpc EXCEPT ![i] = "driving"]
            /\ UNCHANGED waited
       ELSE /\ tpc' = [tpc EXCEPT ![i] = "waiting"]
            /\ waited' = [waited EXCEPT ![i] = TRUE]
            /\ UNCHANGED core
    /\ UNCHANGED <<tresp, tout>>
    /\ UNCHANGED <<mainVars, optVars, decVars, cloneVars, futVars>>

Steal(i) ==
    /\ tpc[i] = "waiting"
    /\ core = 0
    /\ core' = i
    /\ tpc' = [tpc EXCEPT ![i] = "driving"]
    /\ UNCHANGED <<tresp, tout, waited>>
    /\ UNCHANGED <<mainVars, optVars, decVars, cloneVars, futVars>>

Deliver(i) ==
    /\ tpc[i] \in {"waiting", "driving"}
    /\ core # 0
    /\ tresp[i] = NoResp
    /\ \E r \in BlockingResponses : tresp' = [tresp EXCEPT ![i] = r]
    /\ UNCHANGED <<core, tpc, tout, waited>>
    /\ UNCHANGED <<mainVars, optVars, decVars, cloneVars, futVars>>

Complete(i) ==
    /\ tpc[i] \in {"waiting", "driving"}
    /\ tresp[i] # NoResp
    /\ tout' = [tout EXCEPT ![i] = blocking_send(tresp, i)]
    /\ tpc' = [tpc EXCEPT ![i] = "done"]
    /\ core' = IF core = i THEN 0 ELSE core
    /\ UNCHANGED <<tresp, waited>>
    /\ UNCHANGED <<mainVars, optVars, decVars, cloneVars, futVars>>

ThreadBlockOn == \E i \in Threads : BlockOn(i)
ThreadSteal == \E i \in Threads : Steal(i)
DriverDeliver == \E i \in Threads : Deliver(i)
ThreadComplete == \E i \in Threads : Complete(i)

NextBlocking ==
    \/ ThreadBlockOn
    \/ ThreadSteal
    \/ DriverDeliver
    \/ ThreadComplete

(* Every spawned thread runs, the network answers every request or fails   *)
(* it, and a woken block_on call is scheduled.                             *)
SpecBlocking ==
    /\ Init
    /\ [][NextBlocking]_vars
    /\ \A i \in Threads :
          /\ WF_vars(BlockOn(i))
          /\ WF_vars(Steal(i))
          /\ WF_vars(Deliver(i))
          /\ WF_vars(Complete(i))

----------------------------------------------------------------------------
(* client.rs: a Client and one clone of it.  Client derives Clone and its  *)
(* token is an Option<String> field, so the clone gets its own copy;       *)
(* set_token and reset_token take &mut self and assign the field of the    *)
(* Client they are called on.  blocking::Client wraps such a Client.       *)

CloneResponses ==
    {TransportFailure,
     [sent |-> TRUE, status |-> 503, body |-> "maintenance", readable |-> TRUE]}
      \cup {[sent |-> TRUE, status |-> 200, body |-> TokenBody(t), readable |-> TRUE] :
               t \in Tokens}

Client_clone(tok) == tok

Client_store_shared(tokens, i, v) == [j \in DOMAIN tokens |-> v]

Client_store(tokens, i, v) == [tokens EXCEPT ![i] = v]

Exists(i) == i = 1 \/ cloned

CloneClient ==
    /\ ~cloned
    /\ cpc[1] = "idle"
    /\ cloned' = TRUE
    /\ ctoken' = Client_store(ctoken, 2, Client_clone(ctoken[1]))
    /\ atClone' = ctoken[1]
    /\ actor' = [on |-> 0, op |-> "clone"]
    /\ UNCHANGED cpc
    /\ UNCHANGED <<mainVars, optVars, decVars, blkVars, futVars>>

CloneSetToken ==
    /\ \E i \in Handles, t \in Tokens :
          /\ Exists(i)
          /\ cpc[i] = "idle"
          /\ ctoken' = Client_store(ctoken, i, set_token(t))
          /\ actor' = [on |-> i, op |-> "set_token"]
    /\ UNCHANGED <<cloned, cpc, atClone>>
    /\ UNCHANGED <<mainVars, optVars, decVars, blkVars, futVars>>

CloneResetToken ==
    /\ \E i \in Handles :
          /\ Exists(i)
          /\ cpc[i] = "idle"
          /\ cpc' = [cpc EXCEPT ![i] = "reset_token"]
          /\ actor' = [on |-> i, op |-> "reset_token"]
    /\ UNCHANGED <<ctoken, cloned, atClone>>
    /\ UNCHANGED <<mainVars, optVars, decVars, blkVars, futVars>>

CloneRespond ==
    /\ \E i \in Handles, r \in CloneResponses :
          /\ cpc[i] = "reset_token"
          /\ LET result == make_request(reset_token_request(ctoken[i]).marker, r)
                 fin == reset_token_resume(ctoken[i], result)
             IN ctoken' = Client_store(ctoken, i, fin.token)
          /\ cpc' = [cpc EXCEPT ![i] = "idle"]
          /\ actor' = [on |-> i, op |-> "reset_token"]
    /\ UNCHANGED <<cloned, atClone>>
    /\ UNCHANGED <<mainVars, optVars, decVars, blkVars, futVars>>

NextClone ==
    \/ CloneClient
    \/ CloneSetToken
    \/ CloneResetToken
    \/ CloneRespond

SpecClone == Init /\ [][NextClone]_vars

----------------------------------------------------------------------------
(* endpoints.rs: the Request and OwnedRequest that are futures themselves. *)
(* The boxed future of lib.rs make_request is built by the first poll; an  *)
(* async fn does nothing until it is polled, so its HTTP call is issued    *)
(* when the boxed future is polled for the first time.  A future that has  *)
(* returned Ready is not polled again.                                     *)

MaxPolls == 3
FutQuestionNumbers == {0, 50}
FutResponses ==
    {TransportFailure,
     [sent |-> TRUE, status |-> 200, body |-> TRIVIA_BODY, readable |-> TRUE],
     [sent |-> TRUE, status |-> 404, body |-> "not found", readable |-> TRUE],
     [sent |-> TRUE, status |-> 503, body |-> "maintenance", readable |-> TRUE]}

Err_Unsuccessful(status, text) ==
    [kind |-> "Unsuccessful", status |-> status, text |-> text,
     cause |-> "", value |-> ""]

lib_make_request(marker, r) ==
    IF ~r.sent THEN Err_Request("transport")
    ELSE CASE r.status >= ServerErrorFloor ->
                IF ~r.readable THEN Err_Request("body")
                ELSE Err_InternalServerError(r.body)
           [] r.status < ServerErrorFloor /\ r.status = OkStatus ->
                IF ~r.readable THEN Err_Request("body")
                ELSE IF json(marker, r.body).ok THEN Ok(json(marker, r.body).value)
                ELSE Err_Request("decode")
           [] OTHER ->
                IF ~r.readable THEN Err_Request("body")
                ELSE Err_Unsuccessful(r.status, r.body)

EndPointOptions_prepare(o, b) ==
    LET b1 == IF is_some(o.question_number)
              THEN query(b, "amount", ToString(unwrap(o.question_number))) ELSE b
        b2 == IF is_some(o.category) THEN Category_prepare(unwrap(o.category), b1) ELSE b1
        b3 == IF is_some(o.difficulty) THEN Difficulty_prepare(unwrap(o.difficulty), b2) ELSE b2
        b4 == IF is_some(o.kind) THEN Kind_prepare(unwrap(o.kind), b3) ELSE b3
    IN [options |-> [question_number |-> None, category |-> None,
                     difficulty |-> None, kind |-> None],
        builder |-> b4]

endpoints_Request_new(tok, endpoint) ==
    [token |-> tok, endpoint |-> endpoint,
     options |-> [Options_default EXCEPT !.question_number = Some(DefaultQuestions)],
     owned |-> FALSE, future |-> None]

endpoints_into_owned(f) == [f EXCEPT !.owned = TRUE]

endpoints_prepare(f, b) ==
    LET b1 == IF is_some(f.token) THEN query(b, "token", unwrap(f.token)) ELSE b
        p == EndPointOptions_prepare(f.options, b1)
    IN [fut |-> [f EXCEPT !.options = p.options], builder |-> p.builder]

Boxed(request) == [state |-> "created", call |-> request, resp |-> NoResp]

prepare_future_every_poll(f) ==
    LET p == endpoints_prepare(f, get(f.endpoint))
    IN [fut |-> [p.fut EXCEPT !.future = Some(Boxed(p.builder))], built |-> 1]

prepare_future(f) ==
    IF f.future = None
    THEN LET p == endpoints_prepare(f, get(f.endpoint))
         IN [fut |-> [p.fut EXCEPT !.future = Some(Boxed(p.builder))], built |-> 1]
    ELSE [fut |-> f, built |-> 0]

poll(f) ==
    LET g == prepare_future(f)
        inner == unwrap(g.fut.future)
    IN IF inner.state = "created"
       THEN [fut |-> [g.fut EXCEPT !.future = Some([inner EXCEPT !.state = "awaiting"])],
             built |-> g.built, issued |-> 1, out |-> Pending]
       ELSE IF inner.resp = NoResp
       THEN [fut |-> g.fut, built |-> g.built, issued |-> 0, out |-> Pending]
       ELSE [fut |-> [g.fut EXCEPT !.future = Some([inner EXCEPT !.state = "done"])],
             built |-> g.built, issued |-> 0,
             out |-> Ready(lib_make_request("BaseResponse", inner.resp))]

FutNew ==
    /\ fut = NoFut
    /\ \E tok \in {None} \cup {Some(t) : t \in Tokens} :
          fut' = endpoints_Request_new(tok, TRIVIA_URL)
    /\ UNCHANGED <<fout, fhist>>
    /\ UNCHANGED <<mainVars, optVars, decVars, blkVars, cloneVars>>

FutQuestionNumber ==
    /\ fut # NoFut
    /\ fout = Pending
    /\ \E n \in FutQuestionNumbers :
          fut' = [fut EXCEPT !.options = question_number(@, n).options]
    /\ UNCHANGED <<fout, fhist>>
    /\ UNCHANGED <<mainVars, optVars, decVars, blkVars, cloneVars>>

FutCategory ==
    /\ fut # NoFut
    /\ fout = Pending
    /\ \E c \in CategoryInputs : fut' = [fut EXCEPT !.options = category(@, c)]
    /\ UNCHANGED <<fout, fhist>>
    /\ UNCHANGED <<mainVars, optVars, decVars, blkVars, cloneVars>>

FutIntoOwned ==
    /\ fut # NoFut
    /\ fout = Pending
    /\ ~fut.owned
    /\ fut' = endpoints_into_owned(fut)
    /\ UNCHANGED <<fout, fhist>>
    /\ UNCHANGED <<mainVars, optVars, decVars, blkVars, cloneVars>>

FutPoll ==
    /\ fut # NoFut
    /\ fout = Pending
    /\ fhist.polls < MaxPolls
    /\ LET p == poll(fut)
       IN /\ fut' = p.fut
          /\ fout' = p.out
          /\ fhist' = [polls |-> fhist.polls + 1,
                       built |-> fhist.built + p.built,
                       issued |-> fhist.issued + p.issued,
                       prepared |-> fhist.prepared + p.built,
                       first |-> IF fhist.polls = 0 THEN <<fut.token, fut.options>>
                                 ELSE fhist.first]
    /\ UNCHANGED <<mainVars, optVars, decVars, blkVars, cloneVars>>

FutArrive ==
    /\ fut # NoFut
    /\ IF fut.future = None THEN FALSE
       ELSE /\ unwrap(fut.future).state = "awaiting"
            /\ unwrap(fut.future).resp = NoResp
    /\ \E r \in FutResponses :
          fut' = [fut EXCEPT !.future = Some([unwrap(fut.future) EXCEPT !.resp = r])]
    /\ UNCHANGED <<fout, fhist>>
    /\ UNCHANGED <<mainVars, optVars, decVars, blkVars, cloneVars>>

NextFuture ==
    \/ FutNew
    \/ FutQuestionNumber
    \/ FutCategory
    \/ FutIntoOwned
    \/ FutPoll
    \/ FutArrive

SpecFuture == Init /\ [][NextFuture]_vars

----------------------------------------------------------------------------
(* Properties *)

Finished == done # "none"
Count(q, name) == Cardinality({i \in DOMAIN q : q[i][1] = name})
Rank(name) ==
    CASE name = "token" -> 0
      [] name = "amount" -> 1
      [] name = "category" -> 2
      [] name = "difficulty" -> 3
      [] name = "type" -> 4
InOrder(q) == \A i, j \in DOMAIN q : i < j => Rank(q[i][1]) < Rank(q[j][1])
Decodes == json(callInfo.marker, resp.body).ok
AllUnset(o) ==
    /\ o.question_number = None
    /\ o.category = None
    /\ o.difficulty = None
    /\ o.kind = None

\* C1: the status of a response selects exactly one outcome.  When the body
\* is read (and, for 200, decodes): 200 yields the decoded value, a status
\* >= 500 yields InternalServerError with the body text, and every other
\* status yields UnsuccessfulRequest with the status and the body text.  A
\* body that cannot be read or decoded yields a Request error and none of
\* the other status's outcomes.
C1_StatusClassification ==
    (Finished /\ resp.sent) =>
        CASE resp.status = 200 ->
                IF resp.readable /\ Decodes
                THEN /\ outcome.kind = "Ok"
                     /\ callInfo.marker \in {"TokenRequest", "ResetToken"}
                            => resp.body = TokenBody(outcome.value)
                ELSE outcome.kind = "Request"
          [] resp.status >= 500 ->
                IF resp.readable
                THEN outcome.kind = "InternalServerError" /\ outcome.text = resp.body
                ELSE outcome.kind = "Request"
          [] OTHER ->
                IF resp.readable
                THEN /\ outcome.kind = "UnsuccessfulRequest"
                     /\ outcome.status = resp.status
                     /\ outcome.text = resp.body
                ELSE outcome.kind = "Request"

C1_Witness ==
    /\ Finished
    /\ resp.sent
    /\ resp.status = 500
    /\ resp.body = "maintenance"
    /\ outcome.kind = "InternalServerError"
    /\ outcome.text = "maintenance"

\* C2 (as stated): question_number(n) records n when n <= 50 and returns an
\* InvalidOption error when n > 50.
C2_AsStated ==
    lastSet # <<>> =>
        IF lastSet[1] <= 50 THEN lastSet[2] = "ok" ELSE lastSet[2] = "InvalidOption"

\* C2 (amended): question_number(n) records n and returns normally when
\* n <= 50; when n > 50 its assertion fails and the caller panics: no
\* InvalidOption error is returned.
C2_QuestionNumberRange ==
    lastSet # <<>> =>
        IF lastSet[1] <= 50
        THEN /\ lastSet[2] = "ok"
             /\ pc # "panicked"
             /\ req # NoReq
             /\ req.options.question_number = Some(lastSet[1])
        ELSE /\ lastSet[2] = "panic"
             /\ pc = "panicked"

C2_Witness == lastSet = <<51, "panic">> /\ pc = "panicked"

\* C3: generate_token never changes the Client's token: while it is in
\* flight and when it has returned, with success or with an error, the
\* stored token is the one held when it was called.
C3_GenerateTokenKeepsToken ==
    (pc = "generate_token" \/ done = "generate_token") => token = before

C3_Witness ==
    /\ done = "generate_token"
    /\ outcome.kind = "Ok"
    /\ outcome.value = "t2"
    /\ token = Some("t1")

\* C4: reset_token on a Client without a token sends the request that
\* generate_token sends (the token-issuance endpoint, no token parameter)
\* and, on success, stores the token it returns.
C4_ResetWithoutToken ==
    ((pc = "reset_token" \/ done = "reset_token") /\ before = None) =>
        /\ call = [url |-> TOKEN_REQUEST_URL, query |-> << <<"amount", "10">> >>]
        /\ (Finished /\ outcome.kind = "Ok") => token = Some(outcome.value)
        /\ (Finished /\ outcome.kind # "Ok") => token = None

C4_Witness ==
    /\ done = "reset_token"
    /\ before = None
    /\ outcome.kind = "Ok"
    /\ token = Some("t2")

\* C5: reset_token on a Client that holds a token sends to the reset
\* endpoint and leaves the stored token as it was, whatever token the server
\* returns.
C5_ResetKeepsToken ==
    ((pc = "reset_token" \/ done = "reset_token") /\ is_some(before)) =>
        /\ call.url = TOKEN_RESET_URL
        /\ token = before

C5_Witness ==
    /\ done = "reset_token"
    /\ before = Some("t1")
    /\ outcome.kind = "Ok"
    /\ outcome.value = "t2"
    /\ token = Some("t1")

\* C6: Options::prepare consumes the Options: after a prepare every field
\* is unset, a further prepare appends nothing, and over any number of
\* prepares each option that was set has been rendered once: at most one
\* parameter of each name is appended, and none for an unset field or an
\* Any variant.
C6_ApplyConsumes ==
    run # <<>> =>
        /\ AllUnset(options)
        /\ builder = run[3]
        /\ builder.url = run[2].url
        /\ Count(builder.query, "amount") - Count(run[2].query, "amount")
              = IF is_some(run[1].question_number) THEN 1 ELSE 0
        /\ Count(builder.query, "category") - Count(run[2].query, "category")
              = IF is_some(run[1].category) /\ run[1].category # Some(0) THEN 1 ELSE 0
        /\ Count(builder.query, "difficulty") - Count(run[2].query, "difficulty")
              = IF is_some(run[1].difficulty) /\ run[1].difficulty # Some("Any")
                THEN 1 ELSE 0
        /\ Count(builder.query, "type") - Count(run[2].query, "type")
              = IF is_some(run[1].kind) /\ run[1].kind # Some("Any") THEN 1 ELSE 0
        /\ Len(builder.query) - Len(run[2].query) <= 4

C6_Witness ==
    /\ run # <<>>
    /\ run[4] = 2
    /\ is_some(run[1].question_number)
    /\ is_some(run[1].category)
    /\ Len(builder.query) = 2

\* C7: a request made by trivia() or new_request() is sent with exactly one
\* token parameter, carrying the token the Client held when the request was
\* made and placed before amount, category, difficulty and type (which come
\* in that order); when the Client held no token it is sent with no token
\* parameter.
C7_TokenFirst ==
    (call # NoCall /\ callInfo.origin \in {"trivia", "new_request"}) =>
        /\ InOrder(call.query)
        /\ IF is_some(callInfo.held)
           THEN /\ Count(call.query, "token") = 1
                /\ call.query[1] = <<"token", unwrap(callInfo.held)>>
           ELSE Count(call.query, "token") = 0

C7_Witness ==
    /\ call # NoCall
    /\ callInfo.origin = "trivia"
    /\ call.query = << <<"token", "t1">>, <<"amount", "50">>, <<"category", "9">>,
                       <<"difficulty", "hard">>, <<"type", "multiple">> >>

\* C8: a request made by category_details or global_details never carries a
\* token parameter, whether or not the Client holds a token.
C8_DetailsWithoutToken ==
    /\ (req # NoReq /\ reqInfo.origin \in {"category_details", "global_details"})
          => req.token = None
    /\ (call # NoCall /\ callInfo.origin \in {"category_details", "global_details"})
          => Count(call.query, "token") = 0

C8_Witness ==
    /\ call # NoCall
    /\ callInfo.origin = "category_details"
    /\ callInfo.held = Some("t1")
    /\ token = Some("t1")
    /\ Finished

C10_TransportFailure ==
    (Finished /\ ~resp.sent) =>
        /\ outcome = Err_Request("transport")
        /\ outcome.kind \notin {"Ok", "InternalServerError", "UnsuccessfulRequest"}

C10_Witness ==
    /\ done = "send"
    /\ ~resp.sent
    /\ outcome.kind = "Request"
    /\ outcome.cause = "transport"

BadCount == lastSet # <<>> /\ lastSet[1] > MaxQuestions

C17_NonSuccessCodeIsValue ==
    \A c \in 1..4 :
        (Finished /\ callInfo.marker = "BaseResponse" /\ resp.sent
            /\ resp.status = 200 /\ resp.readable /\ resp.body = TriviaBody(c)) =>
            /\ outcome = Ok(BaseResponse(<<"NoResults", "InvalidParameter",
                                           "TokenNotFound", "TokenEmpty">>[c]))
            /\ token = before
            /\ callInfo.trips = 1
            /\ pc = "idle"

C17_Witness ==
    /\ done = "send"
    /\ callInfo.origin = "trivia"
    /\ resp.sent
    /\ resp.status = 200
    /\ resp.body = TriviaBody(4)
    /\ outcome.kind = "Ok"
    /\ outcome.value = "BaseResponse{response_code:TokenEmpty,results:[]}"
    /\ token = Some("t1")

\* C18: a trivia request is sent with exactly one amount parameter: 10 when
\* the caller never set the count, and otherwise the last count set.
C18_DefaultAmount ==
    (call # NoCall /\ callInfo.origin = "trivia") =>
        /\ Count(call.query, "amount") = 1
        /\ \E i \in DOMAIN call.query :
              call.query[i] = <<"amount", IF callInfo.set = <<>> THEN "10"
                                          ELSE ToString(callInfo.set[1])>>

C18_Witness ==
    /\ call # NoCall
    /\ callInfo.origin = "trivia"
    /\ callInfo.set = <<>>
    /\ call.query = << <<"amount", "10">>, <<"category", "32">> >>

\* C14 (as stated): in the statistics map a key that is not the id of a
\* Category variant in 9..32 makes the decode fail with a decode error, and a
\* decoded map holds only Category variants with ids 9..32.
C14_AsStated ==
    dec.op = "visit_map" =>
        /\ (\E i \in DOMAIN dec.arg : dec.arg[i] \notin 9..32) =>
              (~dec.out.ok /\ ~dec.out.aborts)
        /\ dec.out.ok =>
              \A c \in dec.out.value :
                  \E i \in DOMAIN CategoryVariants :
                      CategoryVariants[i].name = c /\ CategoryVariants[i].id \in 9..32

\* C15 (as stated): a Difficulty or Kind wire string that is valid base64 of
\* text other than easy, medium, hard (Difficulty) or boolean, multiple
\* (Kind) is a decode error: no variant is returned and the caller is not
\* aborted.
C15_AsStated ==
    /\ (dec.op = "Difficulty" /\ base64_string(dec.arg).ok
          /\ base64_string(dec.arg).value \notin {Text_easy, Text_medium, Text_hard})
        => (~dec.out.ok /\ ~dec.out.aborts)
    /\ (dec.op = "Kind" /\ base64_string(dec.arg).ok
          /\ base64_string(dec.arg).value \notin {Text_boolean, Text_multiple})
        => (~dec.out.ok /\ ~dec.out.aborts)

\* C16: the response-code decoder maps 0, 1, 2, 3, 4 to Success, NoResults,
\* InvalidParameter, TokenNotFound, TokenEmpty, and for every other integer
\* returns a decode error that reports that integer.
C16_ResponseCodes ==
    dec.op = "response_code" =>
        IF dec.arg \in 0..4
        THEN dec.out = Decoded(<<"Success", "NoResults", "InvalidParameter",
                                 "TokenNotFound", "TokenEmpty">>[dec.arg + 1])
        ELSE /\ ~dec.out.ok
             /\ ~dec.out.aborts
             /\ dec.out.reported = <<dec.arg>>

C16_Witness ==
    /\ dec.op = "response_code"
    /\ dec.arg = 5
    /\ ~dec.out.ok
    /\ dec.out.reported = <<5>>

\* C19: Category decoding of a base64 wire name returns the variant in 9..32
\* whose name equals the text with spaces removed, the prefix up to the colon
\* dropped and "&" replaced by "And", and returns Any (never an error) when
\* no name equals it; CategoryCases pairs each wire name with that variant.
C19_CategoryNames ==
    (dec.op = "Category" /\ dec.arg \in CategoryWires) =>
        \E i \in DOMAIN CategoryCases :
            /\ CategoryCases[i].wire = dec.arg
            /\ dec.out = Decoded(CategoryCases[i].expect)

C19_Witness ==
    /\ dec.op = "Category"
    /\ base64_string(dec.arg).ok
    /\ base64_string(dec.arg).value =
          <<"E", "n", "t", "e", "r", "t", "a", "i", "n", "m", "e", "n", "t", ":",
            " ", "J", "a", "p", "a", "n", "e", "s", "e", " ", "A", "n", "i", "m",
            "e", " ", "&", " ", "M", "a", "n", "g", "a">>
    /\ dec.out.ok
    /\ dec.out.value = "JapaneseAnimeAndManga"

\* C20: for every id in 9..32 the variant with that id renders as exactly
\* one category parameter carrying the same id, distinct ids are distinct
\* variants, and the variant with id 0 renders no parameter.
C20_RenderRoundTrip ==
    /\ dec.op = "render" =>
          IF dec.arg = 0 THEN dec.out = <<>>
          ELSE dec.out = << <<"category", ToString(dec.arg)>> >>
    /\ \A i, j \in 9..32 :
          i # j => transmute(i, "reinterpret").value # transmute(j, "reinterpret").value

C20_Witness ==
    /\ dec.op = "render"
    /\ dec.arg = 32
    /\ dec.out = << <<"category", "32">> >>

C21_AnyAddsNothing ==
    run # <<>> =>
        LET o == run[1]
            appended == SubSeq(run[3].query, Len(run[2].query) + 1, Len(run[3].query))
            amountPart == IF o.question_number = None THEN <<>>
                          ELSE << <<"amount", ToString(unwrap(o.question_number))>> >>
            categoryPart == IF o.category = None \/ o.category = Some(0) THEN <<>>
                            ELSE << <<"category", ToString(unwrap(o.category))>> >>
            difficultyPart ==
                CASE o.difficulty = Some("Easy") -> << <<"difficulty", "easy">> >>
                  [] o.difficulty = Some("Medium") -> << <<"difficulty", "medium">> >>
                  [] o.difficulty = Some("Hard") -> << <<"difficulty", "hard">> >>
                  [] OTHER -> <<>>
            kindPart ==
                CASE o.kind = Some("TrueOrFalse") -> << <<"type", "boolean">> >>
                  [] o.kind = Some("MultipleChoice") -> << <<"type", "multiple">> >>
                  [] OTHER -> <<>>
        IN /\ SubSeq(run[3].query, 1, Len(run[2].query)) = run[2].query
           /\ appended = amountPart \o categoryPart \o difficultyPart \o kindPart

C21_Witness ==
    /\ run # <<>>
    /\ run[1] = [question_number |-> Some(50), category |-> Some(0),
                 difficulty |-> Some("Any"), kind |-> Some("Any")]
    /\ run[2].query = <<>>
    /\ run[3].query = << <<"amount", "50">> >>

\* C23: an OwnedRequest carries the endpoint, token and options of the
\* Request it was made from, the token being the one the Client held then
\* whatever the Client holds later; and every send, of a Request or of an
\* OwnedRequest with whatever options were set on it since, issues the URL
\* and the query parameters, in order, that Request::prepare gives for those
\* fields.
AsBorrowed(r) == [r EXCEPT !.owned = FALSE]

C23_OwnedSendsTheSame ==
    /\ []((req # NoReq /\ ~req.owned) =>
            /\ into_owned(req).endpoint = req.endpoint
            /\ into_owned(req).token = req.token
            /\ into_owned(req).options = req.options
            /\ OwnedRequest_prepare(into_owned(req), get(req.endpoint)).builder
                  = Request_prepare(req, get(req.endpoint)).builder)
    /\ []((req # NoReq /\ req.owned) =>
            req.token = IF reqInfo.origin \in {"trivia", "new_request"}
                        THEN reqInfo.held ELSE None)
    /\ [][(req # NoReq /\ pc = "idle" /\ pc' = "send") =>
            call' = Request_prepare(AsBorrowed(req), get(req.endpoint)).builder]_vars

C23_Witness ==
    /\ pc = "send"
    /\ callInfo.origin = "trivia"
    /\ callInfo.held = Some("t1")
    /\ before = Some("t2")
    /\ call = [url |-> TRIVIA_URL,
               query |-> << <<"token", "t1">>, <<"amount", "10">>,
                            <<"category", "9">> >>]

\* C24: a request made by category_details, global_details, generate_token,
\* reset_token or new_request whose question count was never set is sent
\* with exactly one amount parameter, equal to 10.
C24_EveryRequestHasAmount ==
    (call # NoCall /\ callInfo.set = <<>>
        /\ callInfo.origin \in {"category_details", "global_details",
                                "generate_token", "reset_token", "new_request"}) =>
        /\ Count(call.query, "amount") = 1
        /\ \E i \in DOMAIN call.query : call.query[i] = <<"amount", "10">>

C24_Witness ==
    /\ call # NoCall
    /\ callInfo.origin = "global_details"
    /\ callInfo.set = <<>>
    /\ call = [url |-> GLOBAL_URL, query |-> << <<"amount", "10">> >>]

\* C25: a reset_token that returns an error (transport failure, body not
\* read, status other than 200, body that does not decode) leaves the
\* Client's token as it was before the call, absent or present.
C25_FailedResetKeepsToken ==
    (done = "reset_token" /\ outcome.kind # "Ok") =>
        /\ token = before
        /\ outcome.kind \in {"Request", "InternalServerError", "UnsuccessfulRequest"}
        /\ (~resp.sent \/ ~resp.readable \/ resp.status # 200 \/ ~Decodes)

C25_Witness ==
    /\ done = "reset_token"
    /\ before = Some("t1")
    /\ resp.sent
    /\ resp.status = 429
    /\ outcome.kind = "UnsuccessfulRequest"
    /\ token = Some("t1")

\* C22: once the Client is cloned, an operation called on one of the two
\* (set_token, or reset_token from its start to its return) never changes
\* the token get_token reports on the other.
C22_ClonesOwnTheirToken ==
    [][(cloned /\ cloned') =>
          \A i \in Handles :
              actor'.on = i =>
                  get_token(ctoken'[3 - i]) = get_token(ctoken[3 - i])]_vars

C22_Witness ==
    /\ cloned
    /\ atClone = None
    /\ ctoken[1] = None
    /\ ctoken[2] = Some("t2")
    /\ actor = [on |-> 2, op |-> "reset_token"]
    /\ cpc[2] = "idle"

\* C26: however often the future-based request is polled before it
\* completes, one HTTP request is built and issued and the token and options
\* are applied once, all at the first poll: the call in flight is the one
\* made from the token and options the request had at its first poll, and
\* it stays that call whatever is set or converted afterwards.
C26_BuiltOnFirstPollOnly ==
    fut # NoFut =>
        IF fhist.polls = 0
        THEN /\ fut.future = None
             /\ fhist.built = 0
             /\ fhist.issued = 0
             /\ fhist.prepared = 0
        ELSE /\ fhist.built = 1
             /\ fhist.issued = 1
             /\ fhist.prepared = 1
             /\ is_some(fut.future)
             /\ unwrap(fut.future).call.url = fut.endpoint
             /\ unwrap(fut.future).call.query =
                   (IF is_some(fhist.first[1])
                    THEN << <<"token", unwrap(fhist.first[1])>> >> ELSE <<>>)
                   \o Options_prepare(fhist.first[2], get(fut.endpoint)).builder.query

C26_Witness ==
    /\ fut # NoFut
    /\ fut.owned
    /\ fhist.polls = 3
    /\ fhist.built = 1
    /\ fhist.issued = 1
    /\ fout # Pending
    /\ fout[1].kind = "Ok"
    /\ unwrap(fut.future).call.query = << <<"token", "t1">>, <<"amount", "50">> >>

====
